---- MODULE Spec2Model ----
(***************************************************************************)
(* Hybrid decision engine of smart-him-optimizer:                          *)
(*   backend/models/predictors.py      AGroupClassifier, DenialPredictor   *)
(*   backend/services/prediction_service.py   PredictionService            *)
(*   backend/services/him_service.py   HIMService                          *)
(*                                                                         *)
(* Probabilities and scores are integers in hundredths (0.3 is 30): every  *)
(* sum the rule scorers form (0.2, 0.3, 0.4, 0.5, 0.6, 0.7, 0.8, 1.0) is   *)
(* the same IEEE double as its decimal literal, so the comparisons with    *)
(* 0.4, 0.7 and 1.0 come out as in exact arithmetic.                       *)
(* A Python Optional[int] is a sequence: <<>> is None, <<n>> is n.         *)
(* A text is a sequence of words; "kw in text" is membership of the word.  *)
(***************************************************************************)
EXTENDS Integers, Sequences, FiniteSets, TLC

\* ------------------------------------------------------------------ bounds
\* number of times the training pipeline may rewrite an artifact
MaxSaves == 1
\* cap on the counted executions of load_model per sub-model
MaxLoads == 3
\* longest list of records a batch call is given
MaxBatch == 2

\* ------------------------------------------------------- program constants
\* settings.A_GROUP_THRESHOLD = 0.6
A_GROUP_THRESHOLD == 60
\* risk level boundaries 0.7 and 0.4
HIGH_BOUNDARY == 70
MEDIUM_BOUNDARY == 40
\* revenue per CMI point
REVENUE_UNIT == 300000

\* ------------------------------------------------------------------ inputs
\* principal diagnosis codes as character sequences: "", "A", "A11", "B50",
\* "C10", "B20", "D1"
Diagnoses ==
    { <<>>, <<"A">>, <<"A", "1", "1">>, <<"B", "5", "0">>, <<"C", "1", "0">>,
      <<"B", "2", "0">>, <<"D", "1">> }

\* lengths of stay a request can carry (Optional[int])
LosValues == { <<>>, <<0>>, <<1>>, <<365>>, <<400>> }

\* the remaining features of a record (age, gender, department, secondary
\* diagnoses, ...) as a profile; a loaded model is a fixed function of it
Profiles == 1..3

\* an admission record: has_los says whether the dict has the key
\* "length_of_stay" at all (the API layer always sets it, possibly to None)
Records ==
    { r \in [principal_diagnosis : Diagnoses, has_los : BOOLEAN,
             length_of_stay : LosValues, profile : Profiles] :
        (~r.has_los) => r.length_of_stay = <<>> }

\* --------------------------------------------------------- pure functions
StartsWith(s, p) == Len(s) >= Len(p) /\ SubSeq(s, 1, Len(p)) = p

StartsWithAny(s, ps) == \E p \in ps : StartsWith(s, p)

\* data.get("length_of_stay", 0)
GetLos(data) == IF data.has_los THEN data.length_of_stay ELSE <<0>>

\* los < 1 or los > 365 on an Optional[int]: comparing None raises TypeError
LosCompareRaises(los) == los = <<>>

\* LosAbnormal with the lower bound off by one
LosAbnormal_OffByOne(los) == los[1] <= 1 \/ los[1] > 365

LosAbnormal(los) == los[1] < 1 \/ los[1] > 365

\* the factor texts, word by word
FactorNoDiagnosis == [words |-> <<"ju", "jindan", "migijae">>, arg |-> <<>>]

FactorAmbiguousCode == [words |-> <<"jindan", "code", "bulmyeonghwak">>, arg |-> <<>>]

FactorAbnormalStay(los) == [words |-> <<"bijeongsang", "jaewon", "ilsu">>, arg |-> los]

Contains(kw, factor) == \E i \in 1..Len(factor.words) : factor.words[i] = kw

RecDiagnosisCheck == <<"jindan", "code", "jeonghwakseong", "hwagin">>

RecStayCheck == <<"ip", "toewon", "ilja", "hwagin">>

RecCompleteness == <<"girok", "wanjeonseong", "hwagin">>

\* recommendations whose generic entry is emitted only for an empty list
_get_denial_recommendations_when_empty(risk_factors) ==
    LET r1 == IF \E i \in 1..Len(risk_factors) : Contains("jindan", risk_factors[i])
              THEN <<RecDiagnosisCheck>> ELSE <<>>
        r2 == IF \E i \in 1..Len(risk_factors) : Contains("jaewon", risk_factors[i])
              THEN r1 \o <<RecStayCheck>> ELSE r1
    IN  IF risk_factors = <<>> THEN <<RecCompleteness>> ELSE r2

\* PredictionService._get_denial_recommendations
_get_denial_recommendations(risk_factors) ==
    LET r1 == IF \E i \in 1..Len(risk_factors) : Contains("jindan", risk_factors[i])
              THEN <<RecDiagnosisCheck>> ELSE <<>>
        r2 == IF \E i \in 1..Len(risk_factors) : Contains("jaewon", risk_factors[i])
              THEN r1 \o <<RecStayCheck>> ELSE r1
    IN  IF r2 = <<>> THEN <<RecCompleteness>> ELSE r2

Min(a, b) == IF a <= b THEN a ELSE b

\* PredictionService._predict_denial_with_rules, lines 199-204
RuleRiskLevel(risk_score) ==
    IF risk_score >= HIGH_BOUNDARY THEN "HIGH"
    ELSE IF risk_score >= MEDIUM_BOUNDARY THEN "MEDIUM"
    ELSE "LOW"

\* _get_risk_level with a strict comparison at the HIGH boundary
_get_risk_level_strict(probability) ==
    IF probability > HIGH_BOUNDARY THEN "HIGH"
    ELSE IF probability >= MEDIUM_BOUNDARY THEN "MEDIUM"
    ELSE "LOW"

\* DenialPredictor._get_risk_level
_get_risk_level(probability) ==
    IF probability >= HIGH_BOUNDARY THEN "HIGH"
    ELSE IF probability >= MEDIUM_BOUNDARY THEN "MEDIUM"
    ELSE "LOW"

Raised == [status |-> "raised"]

Returned(v) == [status |-> "returned", value |-> v]

\* _predict_denial_with_rules with the code-length rule as an elif of the
\* missing-diagnosis rule
_predict_denial_with_rules_elif(data) ==
    LET diagnosis == data.principal_diagnosis
        s1 == IF diagnosis = <<>> THEN 30 ELSE 0
        f1 == IF diagnosis = <<>> THEN <<FactorNoDiagnosis>> ELSE <<>>
        s2 == IF diagnosis # <<>> /\ Len(diagnosis) < 3 THEN s1 + 20 ELSE s1
        f2 == IF diagnosis # <<>> /\ Len(diagnosis) < 3
              THEN f1 \o <<FactorAmbiguousCode>> ELSE f1
        los == GetLos(data)
    IN  IF LosCompareRaises(los) THEN Raised
        ELSE LET s3 == IF LosAbnormal(los) THEN s2 + 20 ELSE s2
                 f3 == IF LosAbnormal(los) THEN f2 \o <<FactorAbnormalStay(los)>> ELSE f2
             IN  Returned([denial_probability |-> Min(s3, 100),
                           risk_level |-> RuleRiskLevel(s3),
                           risk_factors |-> f3,
                           recommendations |-> _get_denial_recommendations(f3)])

\* PredictionService._predict_denial_with_rules
_predict_denial_with_rules(data) ==
    LET diagnosis == data.principal_diagnosis
        s1 == IF diagnosis = <<>> THEN 30 ELSE 0
        f1 == IF diagnosis = <<>> THEN <<FactorNoDiagnosis>> ELSE <<>>
        s2 == IF Len(diagnosis) < 3 THEN s1 + 20 ELSE s1
        f2 == IF Len(diagnosis) < 3 THEN f1 \o <<FactorAmbiguousCode>> ELSE f1
        los == GetLos(data)
    IN  IF LosCompareRaises(los) THEN Raised
        ELSE LET s3 == IF LosAbnormal(los) THEN s2 + 20 ELSE s2
                 f3 == IF LosAbnormal(los) THEN f2 \o <<FactorAbnormalStay(los)>> ELSE f2
             IN  Returned([denial_probability |-> Min(s3, 100),
                           risk_level |-> RuleRiskLevel(s3),
                           risk_factors |-> f3,
                           recommendations |-> _get_denial_recommendations(f3)])

\* ------------------------------------------------ rule-based classifier
\* upgrade suggestions that skip the diagnosis entry for an empty diagnosis
_get_upgrade_suggestions_by_diagnosis(current_group, diagnosis) ==
    IF current_group = "B" THEN
        IF diagnosis = << >>
        THEN << [type |-> "documentation", priority |-> "high", expected_impact |-> 15],
                [type |-> "procedure", priority |-> "medium", expected_impact |-> 8] >>
        ELSE << [type |-> "documentation", priority |-> "high", expected_impact |-> 15],
                [type |-> "diagnosis", priority |-> "medium", expected_impact |-> 10],
                [type |-> "procedure", priority |-> "medium", expected_impact |-> 8] >>
    ELSE IF current_group = "C" THEN
        << [type |-> "diagnosis", priority |-> "high", expected_impact |-> 12],
           [type |-> "documentation", priority |-> "medium", expected_impact |-> 8] >>
    ELSE << >>

\* PredictionService._get_upgrade_suggestions (expected_impact in hundredths)
_get_upgrade_suggestions(current_group, diagnosis) ==
    IF current_group = "B" THEN
        << [type |-> "documentation", priority |-> "high", expected_impact |-> 15],
           [type |-> "diagnosis", priority |-> "medium", expected_impact |-> 10],
           [type |-> "procedure", priority |-> "medium", expected_impact |-> 8] >>
    ELSE IF current_group = "C" THEN
        << [type |-> "diagnosis", priority |-> "high", expected_impact |-> 12],
           [type |-> "documentation", priority |-> "medium", expected_impact |-> 8] >>
    ELSE << >>

\* a DRG code with a two-digit suffix
DrgCode_two_digits(group) == <<group, "0", "1">>

\* f"{predicted_group}001"
DrgCode(group) == <<group, "0", "0", "1">>

\* group-A prefixes taken from chapter A alone
APrefixes_chapter_A == { <<"A", "1">>, <<"A", "2">>, <<"A", "3">> }

\* the prefix tuple of the first startswith in _predict_with_rules
APrefixes == { <<"A", "1">>, <<"A", "2">>, <<"A", "3">>, <<"B", "1">>, <<"B", "2">> }

\* the prefix tuple of the second startswith in _predict_with_rules
CPrefixes == { <<"C", "1">>, <<"C", "2">>, <<"D", "1">> }

\* a rule classifier that rates group B at the threshold
_predict_with_rules_B_at_threshold(data) ==
    LET diagnosis == data.principal_diagnosis
        predicted_group == IF StartsWithAny(diagnosis, APrefixes) THEN "A"
                           ELSE IF StartsWithAny(diagnosis, CPrefixes) THEN "C"
                           ELSE "B"
        confidence == IF StartsWithAny(diagnosis, APrefixes) THEN 75
                      ELSE IF StartsWithAny(diagnosis, CPrefixes) THEN 65
                      ELSE 60
        a_group_probability == IF predicted_group = "B" THEN 60
                               ELSE IF predicted_group = "C" THEN 10 ELSE 90
    IN  Returned([predicted_group |-> predicted_group,
                  confidence |-> confidence,
                  drg_code |-> DrgCode(predicted_group),
                  a_group_probability |-> a_group_probability,
                  can_upgrade |-> a_group_probability >= A_GROUP_THRESHOLD,
                  upgrade_suggestions |->
                      _get_upgrade_suggestions(predicted_group, diagnosis)])

\* PredictionService._predict_with_rules
_predict_with_rules(data) ==
    LET diagnosis == data.principal_diagnosis
        predicted_group == IF StartsWithAny(diagnosis, APrefixes) THEN "A"
                           ELSE IF StartsWithAny(diagnosis, CPrefixes) THEN "C"
                           ELSE "B"
        confidence == IF StartsWithAny(diagnosis, APrefixes) THEN 75
                      ELSE IF StartsWithAny(diagnosis, CPrefixes) THEN 65
                      ELSE 60
        a_group_probability == IF predicted_group = "B" THEN 30
                               ELSE IF predicted_group = "C" THEN 10 ELSE 90
    IN  Returned([predicted_group |-> predicted_group,
                  confidence |-> confidence,
                  drg_code |-> DrgCode(predicted_group),
                  a_group_probability |-> a_group_probability,
                  can_upgrade |-> a_group_probability >= A_GROUP_THRESHOLD,
                  upgrade_suggestions |->
                      _get_upgrade_suggestions(predicted_group, diagnosis)])

\* ------------------------------------------------------ learned sub-models
\* A loaded model object is opaque; it is modelled as a fixed function of
\* the artifact version and the record's feature profile.  Outcome of
\* _encode_features followed by model.predict_proba(X)[0]: an exception
\* (unseen category, shape mismatch) or the probability vector.
ClassifierClasses(ver) ==
    IF ver % 2 = 1 THEN <<"A", "B", "C">> ELSE <<"B", "C">>

ClassifierProba(ver, profile) ==
    IF profile = 1 THEN Raised
    ELSE IF ver % 2 = 1
         THEN (IF profile = 2 THEN Returned(<<60, 30, 10>>)
                              ELSE Returned(<<20, 40, 40>>))
         ELSE (IF profile = 2 THEN Returned(<<35, 65>>)
                              ELSE Returned(<<50, 50>>))

\* DenialPredictor: _prepare_features followed by model.predict_proba(X)[0]
DenialProba(ver, profile) ==
    IF profile = 1 THEN Raised
    ELSE IF ver % 2 = 1
         THEN (IF profile = 2 THEN Returned(<<20, 80>>) ELSE Returned(<<100>>))
         ELSE (IF profile = 2 THEN Returned(<<60, 40>>) ELSE Returned(<<30, 70>>))

\* fields of the record the profile stands for
HasSecondaryDiagnoses(data) == data.profile >= 2

DrgGroupIsC(data) == data.profile = 3

HasDrgCode(data) == data.profile = 3

PastDenials(data) == IF data.profile = 2 THEN 1 ELSE 0

\* an argmax that returns the index of the last maximum
ArgMax_last(proba) ==
    CHOOSE i \in 1..Len(proba) :
        /\ \A j \in 1..Len(proba) : proba[j] <= proba[i]
        /\ \A j \in (i + 1)..Len(proba) : proba[j] < proba[i]

\* np.argmax: index of the first maximum
ArgMax(proba) ==
    CHOOSE i \in 1..Len(proba) :
        /\ \A j \in 1..Len(proba) : proba[j] <= proba[i]
        /\ \A j \in 1..(i - 1) : proba[j] < proba[i]

\* group_probs.get(key, 0.0) over {str(cls): proba[i]}
ProbGet(classes, proba, key) ==
    IF \E i \in 1..Len(classes) : classes[i] = key
    THEN proba[CHOOSE i \in 1..Len(classes) :
                 classes[i] = key /\ \A j \in (i + 1)..Len(classes) : classes[j] # key]
    ELSE 0

\* --------------------------------------------------------------- state
VARIABLES
    clsFile,   \* a_group_classifier.pkl on disk: [kind, ver]
    denFile,   \* denial_predictor.pkl on disk: [kind, ver]
    saves,     \* artifacts written by the training pipeline so far
    cls,       \* a_group_classifier: model, label_encoders, feature_columns
    den,       \* denial_predictor: model, risk_factors
    svc,       \* prediction_service: constructed, use_ml, models_loaded
    loads,     \* executions of load_model per sub-model
    last       \* the prediction call in progress: operation, input, outcome,
               \* events; [op |-> "none"] between calls

vars == <<clsFile, denFile, saves, cls, den, svc, loads, last>>

\* what open() + pickle.load + the key lookups of load_model can meet
ClassifierFileKinds == {"absent", "lacks_encoders", "lacks_features", "ok"}

DenialFileKinds == {"absent", "ok", "ok_with_risk_factors"}

\* a handle field is 0 while it has its constructor value (None, {}, [])
\* and otherwise the version of the artifact it was read from

\* AGroupClassifier.load_model: the three assignments run in order inside
\* the try block; the first missing key ends them
AGroupClassifier_load_model(c, file) ==
    IF file.kind = "absent" THEN [handle |-> c, ok |-> FALSE]
    ELSE IF file.kind = "lacks_encoders"
    THEN [handle |-> [c EXCEPT !.model = file.ver], ok |-> FALSE]
    ELSE IF file.kind = "lacks_features"
    THEN [handle |-> [c EXCEPT !.model = file.ver, !.label_encoders = file.ver],
          ok |-> FALSE]
    ELSE [handle |-> [model |-> file.ver, label_encoders |-> file.ver,
                      feature_columns |-> file.ver],
          ok |-> TRUE]

\* DenialPredictor.load_model
DenialPredictor_load_model(d, file) ==
    IF file.kind = "absent" THEN [handle |-> d, ok |-> FALSE]
    ELSE [handle |-> [model |-> file.ver,
                      risk_factors |-> IF file.kind = "ok_with_risk_factors"
                                       THEN file.ver ELSE 0],
          ok |-> TRUE]

\* a class mapping that reports confidence as a percentage
ClassMapping_percent(classes, pr) ==
    IF pr.status = "raised" THEN Raised
    ELSE Returned([predicted_group |-> classes[ArgMax(pr.value)],
                   classes |-> classes,
                   probabilities |-> pr.value,
                   a_group_probability |-> ProbGet(classes, pr.value, "A"),
                   can_upgrade |-> ProbGet(classes, pr.value, "A") >= A_GROUP_THRESHOLD,
                   confidence |-> pr.value[ArgMax(pr.value)] * 100])

\* AGroupClassifier.predict, lines 97-112: the class mapping over the
\* outcome pr of _encode_features and predict_proba
ClassMapping(classes, pr) ==
    IF pr.status = "raised" THEN Raised
    ELSE Returned([predicted_group |-> classes[ArgMax(pr.value)],
                   classes |-> classes,
                   probabilities |-> pr.value,
                   a_group_probability |-> ProbGet(classes, pr.value, "A"),
                   can_upgrade |-> ProbGet(classes, pr.value, "A") >= A_GROUP_THRESHOLD,
                   confidence |-> pr.value[ArgMax(pr.value)]])

\* AGroupClassifier.predict, lines 88-112, on the handle h the lazy load left
\* (self.model.predict_proba raises AttributeError while model is None)
PredictOnHandle(h, n, data) ==
    [handle |-> h, nloads |-> n,
     outcome |-> IF h.model = 0 THEN Raised
                 ELSE ClassMapping(ClassifierClasses(h.model),
                                   ClassifierProba(h.model, data.profile))]

\* AGroupClassifier.predict: lazy load when model is None, then encode,
\* predict_proba and the class mapping.  Yields the handle as the call
\* leaves it, the number of load_model executions, and the outcome.
AGroupClassifier_predict(c, file, data) ==
    PredictOnHandle(IF c.model = 0 THEN AGroupClassifier_load_model(c, file).handle
                                   ELSE c,
                    IF c.model = 0 THEN 1 ELSE 0,
                    data)

FactorShortStay == [words |-> <<"dangi", "jaewon", "1il", "iha">>, arg |-> <<>>]

FactorNoSecondary == [words |-> <<"bu", "jindan", "migijae">>, arg |-> <<>>]

FactorGroupC == [words |-> <<"simcheung", "jilbyeonggun", "C", "group">>, arg |-> <<>>]

FactorNoDrgCode == [words |-> <<"DRG", "code", "mijijeong">>, arg |-> <<>>]

FactorPastDenials == [words |-> <<"gwageo", "sakgam", "iryeok", "jonjae">>, arg |-> <<>>]

\* DenialPredictor._identify_risk_factors
_identify_risk_factors(data) ==
    LET los == GetLos(data)
        f1 == IF data.principal_diagnosis = <<>> THEN <<FactorNoDiagnosis>> ELSE <<>>
    IN  IF LosCompareRaises(los) THEN Raised
        ELSE LET f2 == IF los[1] < 2 THEN f1 \o <<FactorShortStay>> ELSE f1
                 f3 == IF ~HasSecondaryDiagnoses(data)
                       THEN f2 \o <<FactorNoSecondary>> ELSE f2
                 f4 == IF DrgGroupIsC(data) THEN f3 \o <<FactorGroupC>> ELSE f3
             IN  Returned(f4)

\* DenialPredictor._rule_based_prediction
_rule_based_prediction(data) ==
    LET s1 == IF data.principal_diagnosis = <<>> THEN 30 ELSE 0
        f1 == IF data.principal_diagnosis = <<>> THEN <<FactorNoDiagnosis>> ELSE <<>>
        los == GetLos(data)
    IN  IF LosCompareRaises(los) THEN Raised
        ELSE LET s2 == IF LosAbnormal(los) THEN s1 + 20 ELSE s1
                 f2 == IF LosAbnormal(los) THEN f1 \o <<FactorAbnormalStay(los)>> ELSE f1
                 s3 == IF ~HasDrgCode(data) THEN s2 + 30 ELSE s2
                 f3 == IF ~HasDrgCode(data) THEN f2 \o <<FactorNoDrgCode>> ELSE f2
                 s4 == IF PastDenials(data) > 0 THEN s3 + 20 ELSE s3
                 f4 == IF PastDenials(data) > 0 THEN f3 \o <<FactorPastDenials>> ELSE f3
             IN  Returned([denial_probability |-> Min(s4, 100),
                           risk_level |-> _get_risk_level(s4),
                           risk_factors |-> f4])

\* DenialPredictor.predict_risk, lines 243-250, over the outcomes of
\* predict_proba and _identify_risk_factors
LearnedRisk(pr, rf) ==
    IF pr.status = "raised" \/ rf.status = "raised" THEN Raised
    ELSE Returned([denial_probability |->
                       IF Len(pr.value) > 1 THEN pr.value[2] ELSE 0,
                   risk_level |->
                       _get_risk_level(IF Len(pr.value) > 1 THEN pr.value[2] ELSE 0),
                   risk_factors |-> rf.value])

\* DenialPredictor.predict_risk
DenialPredictor_predict_risk(d, data) ==
    IF d.model = 0 THEN _rule_based_prediction(data)
    ELSE LearnedRisk(DenialProba(d.model, data.profile), _identify_risk_factors(data))

\* ------------------------------------------------------ PredictionService
\* PredictionService._load_models, run by __init__: neither load_model
\* raises, so the except branch is never taken
_load_models(c, d, cfile, dfile) ==
    [cls |-> AGroupClassifier_load_model(c, cfile).handle,
     den |-> DenialPredictor_load_model(d, dfile).handle,
     svc |-> [constructed |-> TRUE,
              use_ml |-> AGroupClassifier_load_model(c, cfile).ok,
              models_loaded |-> TRUE]]

\* _predict_with_ml with can_upgrade only above the threshold
MlGroupPrediction_strict(p, data) ==
    [handle |-> p.handle, nloads |-> p.nloads,
     outcome |->
        IF p.outcome.status = "raised" THEN Raised
        ELSE Returned([predicted_group |-> p.outcome.value.predicted_group,
                       confidence |-> p.outcome.value.confidence,
                       drg_code |-> DrgCode(p.outcome.value.predicted_group),
                       a_group_probability |->
                           ProbGet(p.outcome.value.classes,
                                   p.outcome.value.probabilities, "A"),
                       can_upgrade |->
                           ProbGet(p.outcome.value.classes,
                                   p.outcome.value.probabilities, "A")
                               > A_GROUP_THRESHOLD,
                       upgrade_suggestions |->
                           _get_upgrade_suggestions(p.outcome.value.predicted_group,
                                                    data.principal_diagnosis)])]

\* PredictionService._predict_with_ml, lines 76-89, over the outcome p of
\* a_group_classifier.predict
MlGroupPrediction(p, data) ==
    [handle |-> p.handle, nloads |-> p.nloads,
     outcome |->
        IF p.outcome.status = "raised" THEN Raised
        ELSE Returned([predicted_group |-> p.outcome.value.predicted_group,
                       confidence |-> p.outcome.value.confidence,
                       drg_code |-> DrgCode(p.outcome.value.predicted_group),
                       a_group_probability |->
                           ProbGet(p.outcome.value.classes,
                                   p.outcome.value.probabilities, "A"),
                       can_upgrade |->
                           ProbGet(p.outcome.value.classes,
                                   p.outcome.value.probabilities, "A")
                               >= A_GROUP_THRESHOLD,
                       upgrade_suggestions |->
                           _get_upgrade_suggestions(p.outcome.value.predicted_group,
                                                    data.principal_diagnosis)])]

\* PredictionService._predict_with_ml
_predict_with_ml(c, file, data) ==
    MlGroupPrediction(AGroupClassifier_predict(c, file, data), data)

\* PredictionService.predict_group, lines 56-70: the events of a call whose
\* result is outcome.  log_prediction's admission_id and the latency are
\* left out of the events.
EmitAndReturn(s, handle, nloads, learned, outcome) ==
    [handle |-> handle, nloads |-> nloads, learned |-> learned,
     outcome |-> outcome,
     metrics |-> << [prediction_type |-> "group",
                     group |-> outcome.value.predicted_group] >>,
     logs |-> << [predicted_group |-> outcome.value.predicted_group,
                  confidence |-> outcome.value.confidence,
                  method |-> IF s.use_ml THEN "ml" ELSE "rules"] >>]

\* a variant selection that looks at the classifier handle alone
SelectVariant_by_handle(s, c, data, ml) ==
    IF c.model # 0
    THEN EmitAndReturn(s, ml.handle, ml.nloads, ml.outcome.status,
                       IF ml.outcome.status = "returned"
                       THEN ml.outcome ELSE _predict_with_rules(data))
    ELSE EmitAndReturn(s, c, 0, "not_attempted", _predict_with_rules(data))

\* PredictionService.predict_group, lines 47-54, over the outcome ml of
\* _predict_with_ml.  learned: how the Learned path went ("not_attempted",
\* "raised", "returned").
SelectVariant(s, c, data, ml) ==
    IF s.use_ml /\ c.model # 0
    THEN EmitAndReturn(s, ml.handle, ml.nloads, ml.outcome.status,
                       IF ml.outcome.status = "returned"
                       THEN ml.outcome ELSE _predict_with_rules(data))
    ELSE EmitAndReturn(s, c, 0, "not_attempted", _predict_with_rules(data))

\* a predict_group result with the classifier handle dropped when the
\* Learned path raised
DropHandleIfRaised(g) ==
    [g EXCEPT !.handle = IF g.learned = "raised" THEN [@ EXCEPT !.model = 0] ELSE @]

\* predict_group that drops the classifier handle when the Learned path raised
predict_group_drops_handle(s, c, file, data) ==
    DropHandleIfRaised(SelectVariant(s, c, data, _predict_with_ml(c, file, data)))

\* PredictionService.predict_group
predict_group(s, c, file, data) ==
    SelectVariant(s, c, data, _predict_with_ml(c, file, data))

\* PredictionService.predict_denial_risk, lines 167-173, over the outcome ml
\* of denial_predictor.predict_risk
SelectRiskVariant(s, d, data, ml) ==
    [learned |-> IF s.use_ml /\ d.model # 0 THEN ml.status ELSE "not_attempted",
     outcome |-> IF s.use_ml /\ d.model # 0 /\ ml.status = "returned"
                 THEN ml ELSE _predict_denial_with_rules(data),
     metrics |-> << >>,
     logs |-> << >>]

\* PredictionService.predict_denial_risk
predict_denial_risk(s, d, data) ==
    SelectRiskVariant(s, d, data, DenialPredictor_predict_risk(d, data))

UpgradeMessage(prob) ==
    [words |-> <<"A", "group", "jeonhwan", "ganeungseong">>, arg |-> <<prob>>]

RiskMessage(level) ==
    [words |-> <<"cheonggu", "sakgam", "wiheom", level>>, arg |-> <<>>]

\* PredictionService._generate_recommendations
_generate_recommendations(group_pred, denial_pred) ==
    LET r1 == IF group_pred.can_upgrade
              THEN <<UpgradeMessage(group_pred.a_group_probability)>> ELSE <<>>
    IN  IF denial_pred.risk_level \in {"HIGH", "MEDIUM"}
        THEN r1 \o <<RiskMessage(denial_pred.risk_level)>> ELSE r1

\* a cmi_values table whose upgradable C row reaches the A value
CmiValues_C_to_A(group, can_upgrade) ==
    IF group = "A" THEN [current |-> 130, potential |-> 130]
    ELSE IF group = "C"
    THEN [current |-> 70, potential |-> IF can_upgrade THEN 130 ELSE 70]
    ELSE [current |-> 100, potential |-> IF can_upgrade THEN 130 ELSE 100]

\* the cmi_values table of predict_comprehensive, in hundredths
CmiValues(group, can_upgrade) ==
    IF group = "A" THEN [current |-> 130, potential |-> 130]
    ELSE IF group = "C"
    THEN [current |-> 70, potential |-> IF can_upgrade THEN 100 ELSE 70]
    ELSE [current |-> 100, potential |-> IF can_upgrade THEN 130 ELSE 100]

\* an assessment whose revenue impact subtracts the potential value
Assessment_reversed(group_pred, denial_pred, cmi) ==
    Returned([group_prediction |-> group_pred,
              denial_risk |-> denial_pred,
              estimated_cmi |-> cmi.current,
              potential_cmi |-> cmi.potential,
              revenue_impact |->
                  ((cmi.current - cmi.potential) * REVENUE_UNIT) \div 100,
              recommendations |->
                  _generate_recommendations(group_pred, denial_pred)])

\* PredictionService.predict_comprehensive, lines 236-260, over a group
\* prediction and a denial risk
Assessment(group_pred, denial_pred, cmi) ==
    Returned([group_prediction |-> group_pred,
              denial_risk |-> denial_pred,
              estimated_cmi |-> cmi.current,
              potential_cmi |-> cmi.potential,
              revenue_impact |->
                  ((cmi.potential - cmi.current) * REVENUE_UNIT) \div 100,
              recommendations |->
                  _generate_recommendations(group_pred, denial_pred)])

\* PredictionService.predict_comprehensive over the calls g of predict_group
\* and r of predict_denial_risk: an exception of predict_denial_risk leaves
\* after predict_group has emitted its events
Comprehensive(g, r) ==
    [handle |-> g.handle, nloads |-> g.nloads,
     group_learned |-> g.learned, denial_learned |-> r.learned,
     outcome |->
        IF r.outcome.status = "raised" THEN Raised
        ELSE Assessment(g.outcome.value, r.outcome.value,
                        CmiValues(g.outcome.value.predicted_group,
                                  g.outcome.value.can_upgrade)),
     metrics |-> g.metrics \o r.metrics,
     logs |-> g.logs \o r.logs]

\* PredictionService.predict_comprehensive
predict_comprehensive(s, c, d, file, data) ==
    Comprehensive(predict_group(s, c, file, data), predict_denial_risk(s, d, data))

\* ------------------------------------------------------------- HIMService
HimUpgradeMessage(prob) ==
    [words |-> <<"A", "group", "jeonhwan", "ganeungseong", "isseum">>, arg |-> <<prob>>]

HimHighRiskMessage(prob) ==
    [words |-> <<"sakgam", "wiheomdo", "nopeum">>, arg |-> <<prob>>]

HimFactorLine(rf) == [words |-> <<"wiheom", "yoin">> \o rf.words, arg |-> rf.arg]

\* HIMService._generate_recommendations
Him_generate_recommendations(group_pred, denial_risk) ==
    LET r1 == IF group_pred.can_upgrade
              THEN <<HimUpgradeMessage(group_pred.a_group_probability)>> ELSE <<>>
        r2 == IF denial_risk.risk_level = "HIGH"
              THEN r1 \o <<HimHighRiskMessage(denial_risk.denial_probability)>> ELSE r1
    IN  r2 \o [i \in 1..Len(denial_risk.risk_factors) |->
                   HimFactorLine(denial_risk.risk_factors[i])]

\* HIMService.predict_admission_outcome, lines 31-60, over the outcomes p of
\* a_group_classifier.predict and dr of denial_predictor.predict_risk
AdmissionOutcome(p, dr, rag) ==
    [handle |-> p.handle, nloads |-> p.nloads,
     outcome |->
        IF p.outcome.status = "raised" \/ dr.status = "raised" THEN Raised
        ELSE IF p.outcome.value.a_group_probability < A_GROUP_THRESHOLD
                /\ rag = "raises" THEN Raised
        ELSE Returned([group_prediction |-> p.outcome.value,
                       denial_risk |-> dr.value,
                       has_upgrade_suggestions |->
                           p.outcome.value.a_group_probability < A_GROUP_THRESHOLD,
                       recommendations |->
                           Him_generate_recommendations(p.outcome.value, dr.value)]),
     metrics |-> << >>,
     logs |-> << >>]

\* HIMService.predict_admission_outcome.  rag: whether the awaited
\* rag_retriever.suggest_a_group_upgrade (network, LLM) returns or raises.
\* The entity extraction reads only the record's notes and is left out.
predict_admission_outcome(c, d, file, data, rag) ==
    AdmissionOutcome(AGroupClassifier_predict(c, file, data),
                     DenialPredictor_predict_risk(d, data), rag)

\* ---------------------------------------------------------------- batches
\* an entry whose identifier counts the requests from 1
BatchEntry_from_one(i, pred) ==
    [admission_id |-> i,
     predicted_group |-> pred.predicted_group,
     confidence |-> pred.confidence,
     drg_code |-> pred.drg_code]

\* api/v1/predictions.py batch_predict, lines 156-163: the entry appended for
\* the request at position i of the list (positions count from 1);
\* admission_id n stands for f"batch_{n}", which enumerate counts from 0
BatchEntry(i, pred) ==
    [admission_id |-> i - 1,
     predicted_group |-> pred.predicted_group,
     confidence |-> pred.confidence,
     drg_code |-> pred.drg_code]

\* batch_predict over the calls gs of prediction_service.predict_group, one
\* per request: one try block spans the loop, so an exception of any call
\* ends the batch with HTTP 500
BatchOfCalls(c, gs) ==
    [handle |-> c, nloads |-> 0,
     outcome |-> IF \E i \in 1..Len(gs) : gs[i].outcome.status = "raised"
                 THEN Raised
                 ELSE Returned([results |-> [i \in 1..Len(gs) |->
                                               BatchEntry(i, gs[i].outcome.value)],
                                count |-> Len(gs)]),
     metrics |-> [i \in 1..Len(gs) |-> gs[i].metrics[1]],
     logs |-> [i \in 1..Len(gs) |-> gs[i].logs[1]],
     learned |-> [i \in 1..Len(gs) |-> gs[i].learned]]

\* api/v1/predictions.py batch_predict.  predict_group reaches the
\* classifier only with its model set, so every call meets the handle c.
batch_predict(s, c, file, recs) ==
    BatchOfCalls(c, [i \in 1..Len(recs) |-> predict_group(s, c, file, recs[i])])

\* the classifier handle after HIMService has processed the first k records
\* of a batch (AGroupClassifier.predict loads lazily)
RECURSIVE HandleAfter(_, _, _, _)
HandleAfter(c, file, recs, k) ==
    IF k = 0 THEN c
    ELSE AGroupClassifier_predict(HandleAfter(c, file, recs, k - 1),
                                  file, recs[k]).handle

\* HIMService.batch_predict_admissions, lines 143-151: the entry of the i-th
\* record, its prediction or the error caught for it
HimBatchEntry(i, outcome) ==
    IF outcome.status = "raised"
    THEN [admission_id |-> i, error |-> TRUE]
    ELSE [admission_id |-> i, error |-> FALSE, prediction |-> outcome.value]

\* batch_predict_admissions over the calls ps of predict_admission_outcome,
\* one per record, and the handle the last of them left
HimBatchOfCalls(handle, ps) ==
    [handle |-> handle,
     nloads |-> Cardinality({i \in 1..Len(ps) : ps[i].nloads = 1}),
     outcome |-> Returned([i \in 1..Len(ps) |-> HimBatchEntry(i, ps[i].outcome)]),
     metrics |-> << >>,
     logs |-> << >>]

\* a batch_predict_admissions in which the first exception ends the loop
batch_predict_admissions_aborts(c, d, file, recs, rags) ==
    LET b == HimBatchOfCalls(
                 HandleAfter(c, file, recs, Len(recs)),
                 [i \in 1..Len(recs) |->
                     predict_admission_outcome(HandleAfter(c, file, recs, i - 1),
                                               d, file, recs[i], rags[i])])
    IN  [b EXCEPT !.outcome =
             IF \E i \in 1..Len(recs) : @.value[i].error THEN Raised ELSE @]

\* HIMService.batch_predict_admissions
batch_predict_admissions(c, d, file, recs, rags) ==
    HimBatchOfCalls(
        HandleAfter(c, file, recs, Len(recs)),
        [i \in 1..Len(recs) |->
            predict_admission_outcome(HandleAfter(c, file, recs, i - 1),
                                      d, file, recs[i], rags[i])])

\* ---------------------------------------------------------------- actions
NoHandle == [model |-> 0, label_encoders |-> 0, feature_columns |-> 0]

NoDenialHandle == [model |-> 0, risk_factors |-> 0]

\* models/predictors.py has been imported: the two global predictors exist
\* with their constructor values; prediction_service is not constructed yet
Init ==
    /\ clsFile \in [kind : ClassifierFileKinds, ver : {1}]
    /\ denFile \in [kind : DenialFileKinds, ver : {1}]
    /\ saves = 0
    /\ cls = NoHandle
    /\ den = NoDenialHandle
    /\ svc = [constructed |-> FALSE, use_ml |-> FALSE, models_loaded |-> FALSE]
    /\ loads = [cls |-> 0, den |-> 0]
    /\ last = [op |-> "none"]

Idle == last.op = "none"

\* prediction_service = PredictionService()
Construct ==
    /\ Idle
    /\ ~svc.constructed
    /\ loads.cls < MaxLoads
    /\ cls' = _load_models(cls, den, clsFile, denFile).cls
    /\ den' = _load_models(cls, den, clsFile, denFile).den
    /\ svc' = _load_models(cls, den, clsFile, denFile).svc
    /\ loads' = [cls |-> loads.cls + 1, den |-> loads.den + 1]
    /\ UNCHANGED <<clsFile, denFile, saves, last>>

\* a prediction call takes effect: the classifier handle as the call left
\* it, the counted loads, and the call record in last
Call(op, data, call, glearned, dlearned) ==
    /\ loads.cls + call.nloads <= MaxLoads
    /\ cls' = call.handle
    /\ loads' = [loads EXCEPT !.cls = @ + call.nloads]
    /\ last' = [op |-> op, data |-> data, outcome |-> call.outcome,
                metrics |-> call.metrics, logs |-> call.logs,
                group_learned |-> glearned, denial_learned |-> dlearned,
                cls_before |-> cls, den_before |-> den, svc_before |-> svc]
    /\ UNCHANGED <<clsFile, denFile, saves, den, svc>>

\* predict_denial_risk as a call: it never reaches the classifier
RiskCall(r) == [handle |-> cls, nloads |-> 0, outcome |-> r.outcome,
                metrics |-> r.metrics, logs |-> r.logs, learned |-> r.learned]

GroupCallDone(data, g) == Call("predict_group", data, g, g.learned, "none")

RiskCallDone(data, r) == Call("predict_denial_risk", data, r, "none", r.learned)

ComprehensiveCallDone(data, a) ==
    Call("predict_comprehensive", data, a, a.group_learned, a.denial_learned)

PredictGroup(data) ==
    /\ Idle
    /\ svc.constructed
    /\ GroupCallDone(data, predict_group(svc, cls, clsFile, data))

PredictDenialRisk(data) ==
    /\ Idle
    /\ svc.constructed
    /\ RiskCallDone(data, RiskCall(predict_denial_risk(svc, den, data)))

PredictComprehensive(data) ==
    /\ Idle
    /\ svc.constructed
    /\ ComprehensiveCallDone(data, predict_comprehensive(svc, cls, den, clsFile, data))

HimPredictAdmissionOutcome(data, rag) ==
    /\ Idle
    /\ Call("predict_admission_outcome", data,
            predict_admission_outcome(cls, den, clsFile, data, rag), "none", "none")

\* the records a batch is made of: the request schema always sets the
\* length_of_stay key, possibly to None; profile 1 makes a loaded model raise
BatchRecords ==
    { r \in Records : r.principal_diagnosis = <<"B", "5", "0">>
                      /\ r.has_los /\ r.length_of_stay \in {<< >>, <<1>>}
                      /\ r.profile \in {1, 2}
                      /\ (r.length_of_stay = << >> => r.profile = 1) }

Batches == UNION { [1..n -> BatchRecords] : n \in 0..MaxBatch }

\* POST /predictions/batch
BatchPredict(recs) ==
    /\ Idle
    /\ svc.constructed
    /\ Call("batch_predict", recs, batch_predict(svc, cls, clsFile, recs),
            "none", "none")

\* him_service.batch_predict_admissions(admissions_data); rags[i]: whether
\* the retriever returns or raises for the i-th record
HimBatchPredictAdmissions(recs, rags) ==
    /\ Idle
    /\ Call("batch_predict_admissions", [records |-> recs, rags |-> rags],
            batch_predict_admissions(cls, den, clsFile, recs, rags),
            "none", "none")

\* ml/training/train_a_group_classifier.py main(): save_model writes
\* model, encoders and features to a_group_classifier.pkl
TrainingSavesClassifier ==
    /\ Idle
    /\ saves < MaxSaves
    /\ saves' = saves + 1
    /\ clsFile' = [kind |-> "ok", ver |-> clsFile.ver + 1]
    /\ UNCHANGED <<denFile, cls, den, svc, loads, last>>

\* ml/training/train_denial_predictor.py main(): save_model writes model
\* and features (no risk_factors key) to denial_predictor.pkl
TrainingSavesDenial ==
    /\ Idle
    /\ saves < MaxSaves
    /\ saves' = saves + 1
    /\ denFile' = [kind |-> "ok", ver |-> denFile.ver + 1]
    /\ UNCHANGED <<clsFile, cls, den, svc, loads, last>>

\* the caller (an endpoint of api/v1/predictions.py, a test) has taken the
\* result or the exception; the result has no identity beyond the request
ReturnToCaller ==
    /\ ~Idle
    /\ last' = [op |-> "none"]
    /\ UNCHANGED <<clsFile, denFile, saves, cls, den, svc, loads>>

Next ==
    \/ Construct
    \/ \E data \in Records : PredictGroup(data)
    \/ \E data \in Records : PredictDenialRisk(data)
    \/ \E data \in Records : PredictComprehensive(data)
    \/ \E data \in Records : \E rag \in {"returns", "raises"} :
           HimPredictAdmissionOutcome(data, rag)
    \/ \E recs \in Batches : BatchPredict(recs)
    \/ \E recs \in Batches : \E rags \in [1..Len(recs) -> {"returns", "raises"}] :
           HimBatchPredictAdmissions(recs, rags)
    \/ TrainingSavesClassifier
    \/ TrainingSavesDenial
    \/ ReturnToCaller

Spec == Init /\ [][Next]_vars

\* ------------------------------------------ the pure parts on their own
\* group predictions the outcome estimate can be handed: any group value
\* (also one outside A, B, C) with either value of can_upgrade
EstimateGroupPredictions ==
    { [predicted_group |-> g, can_upgrade |-> u,
       a_group_probability |-> IF u THEN 90 ELSE 30] :
          g \in {"A", "B", "C", "X"}, u \in BOOLEAN }

\* denial risks the outcome estimate can be handed
EstimateDenialRisks ==
    { [risk_level |-> lv, risk_factors |-> fs] :
          lv \in {"LOW", "MEDIUM", "HIGH"},
          fs \in { << >>, <<FactorNoDiagnosis, FactorAbnormalStay(<<400>>)>> } }

\* lines 236-260 of predict_comprehensive applied to a group prediction and
\* a denial risk
EstimateOutcome(group_pred, denial_pred) ==
    /\ Idle
    /\ last' = [op |-> "estimate_outcome",
                outcome |-> Assessment(group_pred, denial_pred,
                                       CmiValues(group_pred.predicted_group,
                                                 group_pred.can_upgrade))]
    /\ UNCHANGED <<clsFile, denFile, saves, cls, den, svc, loads>>

\* the factor texts either scorer can produce
FactorKinds ==
    { FactorNoDiagnosis, FactorAmbiguousCode, FactorAbnormalStay(<<400>>),
      FactorShortStay, FactorNoSecondary, FactorGroupC, FactorNoDrgCode,
      FactorPastDenials }

\* longest factor list handed to _get_denial_recommendations on its own
MaxFactors == 2

FactorLists ==
    UNION { [1..n -> FactorKinds] : n \in 0..MaxFactors }

\* _get_denial_recommendations applied to a list of risk factors
DeriveRecommendations(risk_factors) ==
    /\ Idle
    /\ last' = [op |-> "derive_recommendations",
                risk_factors |-> risk_factors,
                outcome |-> Returned(_get_denial_recommendations(risk_factors))]
    /\ UNCHANGED <<clsFile, denFile, saves, cls, den, svc, loads>>

\* category sets a stored LabelEncoder can hold for one column: "Unknown" is
\* among them only if the training data had a missing value in that column
EncoderTables ==
    { {"IM"}, {"IM", "GS"}, {"IM", "Unknown"}, {"IM", "GS", "Unknown"} }

\* values a record can carry in a categorical column: << >> is None
FeatureValues == { << >>, <<"IM">>, <<"GS">>, <<"ZZ">> }

\* the lambda of _encode_features, line 174: x if x in unique_values else
\* 'Unknown'
ReplaceUnseen(classes, value) ==
    IF value # << >> /\ value[1] \in classes THEN value[1] ELSE "Unknown"

\* AGroupClassifier._encode_features, lines 169-176, for one encoded
\* column: encoder.transform raises ValueError on a label outside classes_
_encode_features(classes, value) ==
    IF ReplaceUnseen(classes, value) \in classes
    THEN Returned([category |-> ReplaceUnseen(classes, value)])
    ELSE Raised

\* _encode_features applied to a column value under an encoding table
EncodeFeatures(classes, value) ==
    /\ Idle
    /\ last' = [op |-> "encode_features", classes |-> classes, value |-> value,
                outcome |-> _encode_features(classes, value)]
    /\ UNCHANGED <<clsFile, denFile, saves, cls, den, svc, loads>>

NextFunctions ==
    \/ Next
    \/ \E classes \in EncoderTables : \E value \in FeatureValues :
           EncodeFeatures(classes, value)
    \/ \E gp \in EstimateGroupPredictions : \E dp \in EstimateDenialRisks :
           EstimateOutcome(gp, dp)
    \/ \E fs \in FactorLists : DeriveRecommendations(fs)

SpecFunctions == Init /\ [][NextFunctions]_vars

\* ------------------------------------------------------------------ claims
ServiceOps == {"predict_group", "predict_denial_risk", "predict_comprehensive"}

DenialOps == {"predict_denial_risk", "predict_comprehensive"}

\* the DenialRisk a finished call carries, as a set (empty when none)
ReturnedDenialRisks ==
    IF last.op = "none" \/ last.outcome.status # "returned" THEN {}
    ELSE IF last.op = "predict_denial_risk" THEN {last.outcome.value}
    ELSE IF last.op \in {"predict_comprehensive", "predict_admission_outcome"}
         THEN {last.outcome.value.denial_risk}
    ELSE {}

\* C1: for every record whose length of stay is absent (no key, or null),
\* predict_denial_risk and predict_comprehensive return a result and raise
\* no exception.
C1_AbsentFieldsNeverRaise ==
    (last.op \in DenialOps /\ last.data.length_of_stay = << >>)
        => last.outcome.status = "returned"

\* C2: whenever the Learned variant is not used or raises during a call,
\* predict_group and predict_denial_risk return exactly the RuleBased result
\* for the same input and no exception reaches the caller.
C2_FallbackReturnsRuleResult ==
    /\ (last.op = "predict_group" /\ last.group_learned \in {"not_attempted", "raised"})
           => /\ last.outcome.status = "returned"
              /\ last.outcome = _predict_with_rules(last.data)
    /\ (last.op = "predict_denial_risk"
            /\ last.denial_learned \in {"not_attempted", "raised"})
           => /\ last.outcome.status = "returned"
              /\ last.outcome = _predict_denial_with_rules(last.data)

\* C3: the two sub-models are tracked independently: a loaded risk scorer is
\* used by predict_denial_risk whether or not the classifier loaded, and a
\* loaded classifier is used by predict_group whether or not the risk scorer
\* loaded.
C3_SubModelsIndependent ==
    /\ (last.op = "predict_denial_risk" /\ den.model # 0)
           => last.denial_learned # "not_attempted"
    /\ (last.op = "predict_group" /\ svc.use_ml /\ cls.model # 0)
           => last.group_learned # "not_attempted"

C5_OneEventPerCall ==
    last.op \in ServiceOps
        => /\ Len(last.metrics) = 1
           /\ last.metrics[1].prediction_type =
                 (IF last.op = "predict_group" THEN "group"
                  ELSE IF last.op = "predict_denial_risk" THEN "denial_risk"
                  ELSE "comprehensive")

\* C6: load_model executes at most once per sub-model.
C6_LoadAtMostOnce == loads.cls <= 1 /\ loads.den <= 1

\* C7: no prediction call changes a model handle field.
C7_PredictionsLeaveHandles ==
    last.op # "none" => (cls = last.cls_before /\ den = last.den_before)

\* the rule-based scorer produced the result of a predict_denial_risk call
RuleScored ==
    /\ last.op = "predict_denial_risk"
    /\ last.denial_learned \in {"not_attempted", "raised"}
    /\ last.outcome.status = "returned"

Scenario2 ==
    /\ last.op = "predict_denial_risk"
    /\ den.model = 0
    /\ last.data.principal_diagnosis = << >>
    /\ last.data.length_of_stay = <<400>>

IsFactor(f, fs) == \E i \in 1..Len(fs) : fs[i] = f

\* C8 as stated: empty principal diagnosis and length of stay 400 with no
\* model loaded give the missing-diagnosis and abnormal-stay factors,
\* denial_probability 0.5 and risk_level MEDIUM.
C8_Scenario2AsStated ==
    Scenario2
        => /\ last.outcome.status = "returned"
           /\ IsFactor(FactorNoDiagnosis, last.outcome.value.risk_factors)
           /\ IsFactor(FactorAbnormalStay(<<400>>), last.outcome.value.risk_factors)
           /\ last.outcome.value.denial_probability = 50
           /\ last.outcome.value.risk_level = "MEDIUM"

\* C8 amended: empty principal diagnosis and length of stay 400 with no
\* model loaded give the factors missing-diagnosis, ambiguous-code (the empty
\* code is also shorter than 3 characters) and abnormal-stay, in this order,
\* denial_probability 0.7 and risk_level HIGH.
C8_Scenario2 ==
    Scenario2
        => /\ last.outcome.status = "returned"
           /\ last.outcome.value.risk_factors =
                 <<FactorNoDiagnosis, FactorAmbiguousCode, FactorAbnormalStay(<<400>>)>>
           /\ last.outcome.value.denial_probability = 70
           /\ last.outcome.value.risk_level = "HIGH"

C8_Witness == Scenario2 /\ last.outcome.status = "returned"

\* the length of stay the scorer reads: the default 0 when the key is absent
StayRead == IF last.data.has_los THEN last.data.length_of_stay[1] ELSE 0

MissingFired == Len(last.data.principal_diagnosis) = 0

ShortFired == Len(last.data.principal_diagnosis) < 3

StayFired == StayRead < 1 \/ StayRead > 365

\* C9: the RuleBased scorer's denial_probability is the sum, clamped to
\* [0,1], of 0.3 for a missing diagnosis, 0.2 for a diagnosis under 3
\* characters and 0.2 for a length of stay below 1 or above 365, and
\* risk_factors lists exactly the factors that fired, in that order.
C9_RuleScore ==
    RuleScored
        => LET sum == (IF MissingFired THEN 30 ELSE 0)
                      + (IF ShortFired THEN 20 ELSE 0)
                      + (IF StayFired THEN 20 ELSE 0)
           IN  /\ last.outcome.value.denial_probability
                     = (IF sum > 100 THEN 100 ELSE IF sum < 0 THEN 0 ELSE sum)
               /\ last.outcome.value.risk_factors =
                     (IF MissingFired THEN <<FactorNoDiagnosis>> ELSE << >>)
                     \o (IF ShortFired THEN <<FactorAmbiguousCode>> ELSE << >>)
                     \o (IF StayFired
                         THEN <<[words |-> <<"bijeongsang", "jaewon", "ilsu">>,
                                 arg |-> <<StayRead>>]>>
                         ELSE << >>)

C9_Witness ==
    /\ RuleScored
    /\ last.data.principal_diagnosis = <<"A">>
    /\ last.data.length_of_stay = <<400>>
    /\ last.outcome.value.denial_probability = 40
    /\ Len(last.outcome.value.risk_factors) = 2

\* C10: in every DenialRisk returned by either variant, risk_level is HIGH
\* iff denial_probability >= 0.7, MEDIUM iff 0.4 <= denial_probability < 0.7
\* and LOW otherwise.
C10_RiskLevelOfProbability ==
    \A r \in ReturnedDenialRisks :
        /\ (r.risk_level = "HIGH") <=> (r.denial_probability >= 70)
        /\ (r.risk_level = "MEDIUM")
               <=> (r.denial_probability >= 40 /\ r.denial_probability < 70)
        /\ (r.risk_level = "LOW") <=> (r.denial_probability < 40)

C10_Witness ==
    /\ last.op = "predict_denial_risk"
    /\ last.denial_learned = "returned"
    /\ last.outcome.value.denial_probability = 70
    /\ last.outcome.value.risk_level = "HIGH"

\* the GroupPrediction a finished orchestrator call carries, as a set
ReturnedGroupPredictions ==
    IF last.op = "none" \/ last.outcome.status # "returned" THEN {}
    ELSE IF last.op = "predict_group" THEN {last.outcome.value}
    ELSE IF last.op = "predict_comprehensive"
         THEN {last.outcome.value.group_prediction}
    ELSE {}

\* the result of a_group_classifier.predict that HIMService passes on
ReturnedClassifierResults ==
    IF last.op = "predict_admission_outcome" /\ last.outcome.status = "returned"
    THEN {last.outcome.value.group_prediction} ELSE {}

\* C11: on the Learned and the RuleBased path alike, every returned
\* GroupPrediction has confidence in [0,1] and every returned DenialRisk has
\* denial_probability in [0,1] (hundredths: 0..100).
C11_ScoresInUnitInterval ==
    /\ \A g \in ReturnedGroupPredictions \cup ReturnedClassifierResults :
           g.confidence >= 0 /\ g.confidence <= 100
    /\ \A r \in ReturnedDenialRisks :
           r.denial_probability >= 0 /\ r.denial_probability <= 100

C11_Witness ==
    /\ last.op = "predict_comprehensive"
    /\ last.outcome.status = "returned"
    /\ last.group_learned = "returned"
    /\ last.denial_learned = "not_attempted"
    /\ last.outcome.value.group_prediction.confidence = 60
    /\ last.outcome.value.denial_risk.denial_probability = 70

RuleGroupPredictions ==
    IF last.op \in {"predict_group", "predict_comprehensive"}
       /\ last.group_learned \in {"not_attempted", "raised"}
    THEN ReturnedGroupPredictions ELSE {}

\* the first two characters of the call's principal diagnosis are one of ps
FirstTwoIn(ps) ==
    /\ Len(last.data.principal_diagnosis) >= 2
    /\ <<last.data.principal_diagnosis[1], last.data.principal_diagnosis[2]>> \in ps

\* C13: the RuleBased classifier decides by the first two characters of the
\* principal diagnosis: A1, A2, A3, B1, B2 give group A with confidence
\* 0.75; C1, C2, D1 give group C with confidence 0.65; every other
\* diagnosis, the empty one included, gives group B with confidence 0.60.
C13_RuleGroupByPrefix ==
    \A g \in RuleGroupPredictions :
        IF FirstTwoIn({<<"A", "1">>, <<"A", "2">>, <<"A", "3">>,
                       <<"B", "1">>, <<"B", "2">>})
        THEN g.predicted_group = "A" /\ g.confidence = 75
        ELSE IF FirstTwoIn({<<"C", "1">>, <<"C", "2">>, <<"D", "1">>})
        THEN g.predicted_group = "C" /\ g.confidence = 65
        ELSE g.predicted_group = "B" /\ g.confidence = 60

\* with no model loaded, the code "B20" is classified as group A
C13_Witness ==
    /\ last.op = "predict_group"
    /\ cls.model = 0
    /\ last.group_learned = "not_attempted"
    /\ last.data.principal_diagnosis = <<"B", "2", "0">>
    /\ last.outcome.value.predicted_group = "A"
    /\ last.outcome.value.confidence = 75
    /\ last.outcome.value.drg_code = <<"A", "0", "0", "1">>

\* C14: in every GroupPrediction can_upgrade is true exactly when
\* a_group_probability >= 0.6 (the configured threshold); on the RuleBased
\* path a_group_probability is 0.9 for group A, 0.3 for B and 0.1 for C.
C14_CanUpgradeAtThreshold ==
    /\ \A g \in ReturnedGroupPredictions \cup ReturnedClassifierResults :
           g.can_upgrade <=> (g.a_group_probability >= 60)
    /\ \A g \in RuleGroupPredictions :
           g.a_group_probability =
               (IF g.predicted_group = "A" THEN 90
                ELSE IF g.predicted_group = "B" THEN 30 ELSE 10)

\* the Learned path returns a_group_probability exactly at the threshold
C14_Witness ==
    /\ last.op = "predict_group"
    /\ last.group_learned = "returned"
    /\ last.outcome.value.a_group_probability = 60
    /\ last.outcome.value.can_upgrade

\* the assessments made by predict_comprehensive or by its estimate alone
AssessmentsMade ==
    IF last.op \in {"predict_comprehensive", "estimate_outcome"}
       /\ last.outcome.status = "returned"
    THEN {last.outcome.value} ELSE {}

\* C15: the outcome estimate follows the fixed table (hundredths): group A
\* gives 1.3 and 1.3; group C gives 0.7 and 1.0 if can_upgrade else 0.7;
\* group B and any unrecognized group give 1.0 and 1.3 if can_upgrade else
\* 1.0; revenue_impact = (potential - estimated) x 300000.  A group-B,
\* not-upgradable record yields 1.0, 1.0 and 0.
C15_OutcomeEstimateTable ==
    \A a \in AssessmentsMade :
        LET g == a.group_prediction.predicted_group
            u == a.group_prediction.can_upgrade
        IN  /\ a.estimated_cmi = (IF g = "A" THEN 130 ELSE IF g = "C" THEN 70 ELSE 100)
            /\ a.potential_cmi =
                   (IF g = "A" THEN 130
                    ELSE IF g = "C" THEN (IF u THEN 100 ELSE 70)
                    ELSE (IF u THEN 130 ELSE 100))
            /\ a.revenue_impact * 100 = (a.potential_cmi - a.estimated_cmi) * 300000
            /\ (g = "B" /\ ~u)
                   => (a.estimated_cmi = 100 /\ a.potential_cmi = 100
                       /\ a.revenue_impact = 0)

\* Scenario 3: predict_comprehensive on "B50", classified B by the rules
C15_Witness ==
    /\ last.op = "predict_comprehensive"
    /\ last.outcome.status = "returned"
    /\ last.group_learned = "not_attempted"
    /\ last.data.principal_diagnosis = <<"B", "5", "0">>
    /\ last.outcome.value.estimated_cmi = 100
    /\ last.outcome.value.potential_cmi = 100
    /\ last.outcome.value.revenue_impact = 0

\* C16 as stated: revenue_impact has the sign of potential_cmi -
\* estimated_cmi, is strictly positive whenever can_upgrade is true, zero
\* otherwise, and never negative.
C16_PositiveWheneverUpgradable ==
    \A a \in AssessmentsMade :
        /\ a.revenue_impact >= 0
        /\ (a.revenue_impact > 0) <=> (a.potential_cmi > a.estimated_cmi)
        /\ a.group_prediction.can_upgrade => a.revenue_impact > 0
        /\ ~a.group_prediction.can_upgrade => a.revenue_impact = 0

\* C16 amended: revenue_impact has the sign of potential_cmi -
\* estimated_cmi and is never negative; it is strictly positive exactly when
\* can_upgrade is true and the predicted group is not A, and zero otherwise
\* (a group-A prediction has revenue_impact 0 also when can_upgrade is true).
C16_RevenueImpactSign ==
    \A a \in AssessmentsMade :
        /\ a.revenue_impact >= 0
        /\ (a.revenue_impact > 0) <=> (a.potential_cmi > a.estimated_cmi)
        /\ (a.revenue_impact > 0)
               <=> (a.group_prediction.can_upgrade
                    /\ a.group_prediction.predicted_group # "A")
        /\ (a.revenue_impact = 0)
               <=> (~a.group_prediction.can_upgrade
                    \/ a.group_prediction.predicted_group = "A")

\* predict_comprehensive on a record the rules classify as A: can_upgrade
\* is true and the revenue impact is 0
C16_Witness ==
    /\ last.op = "predict_comprehensive"
    /\ last.outcome.status = "returned"
    /\ last.outcome.value.group_prediction.predicted_group = "A"
    /\ last.outcome.value.group_prediction.can_upgrade
    /\ last.outcome.value.revenue_impact = 0

\* C17: the recommendation list of a comprehensive assessment is, in this
\* order, an upgrade-probability message if can_upgrade, a risk-level
\* message if risk_level is MEDIUM or HIGH, then one entry per risk factor
\* in the scorer's order, and nothing else.
C17_RecommendationOrder ==
    (last.op = "predict_comprehensive" /\ last.outcome.status = "returned")
        => LET a == last.outcome.value
               head == (IF a.group_prediction.can_upgrade
                        THEN <<UpgradeMessage(a.group_prediction.a_group_probability)>>
                        ELSE << >>)
                       \o (IF a.denial_risk.risk_level \in {"MEDIUM", "HIGH"}
                           THEN <<RiskMessage(a.denial_risk.risk_level)>>
                           ELSE << >>)
               n == Len(a.denial_risk.risk_factors)
           IN  /\ Len(a.recommendations) = Len(head) + n
               /\ SubSeq(a.recommendations, 1, Len(head)) = head
               /\ \A i \in 1..n :
                      a.recommendations[Len(head) + i].words
                          = a.denial_risk.risk_factors[i].words
                      \/ a.recommendations[Len(head) + i]
                          = HimFactorLine(a.denial_risk.risk_factors[i])

\* C18: every DenialRisk returned by predict_denial_risk, from the Learned
\* or the RuleBased scorer, carries a recommendations list derived from its
\* risk_factors, so that result["recommendations"] can always be read.
C18_RecommendationsPresent ==
    (last.op = "predict_denial_risk" /\ last.outcome.status = "returned")
        => /\ "recommendations" \in DOMAIN last.outcome.value
           /\ last.outcome.value.recommendations
                  = _get_denial_recommendations(last.outcome.value.risk_factors)

\* the pairs (risk factors, recommendations) the RuleBased derivation made
DerivedRecommendations ==
    IF last.op = "derive_recommendations"
    THEN {[risk_factors |-> last.risk_factors, recommendations |-> last.outcome.value]}
    ELSE IF RuleScored
    THEN {[risk_factors |-> last.outcome.value.risk_factors,
           recommendations |-> last.outcome.value.recommendations]}
    ELSE {}

\* some factor of fs mentions the keyword
Mentions(kw, fs) == \E i \in 1..Len(fs) : \E j \in 1..Len(fs[i].words) : fs[i].words[j] = kw

\* C19: RuleBased denial recommendations hold the diagnosis mitigation iff
\* some factor is diagnosis-related, then the stay mitigation iff some
\* factor is stay-related; the generic record-completeness recommendation
\* is emitted iff no factor matches either category, never with a specific
\* one.
C19_RecommendationsByCategory ==
    \A d \in DerivedRecommendations :
        d.recommendations =
            IF ~Mentions("jindan", d.risk_factors) /\ ~Mentions("jaewon", d.risk_factors)
            THEN <<RecCompleteness>>
            ELSE (IF Mentions("jindan", d.risk_factors)
                  THEN <<RecDiagnosisCheck>> ELSE << >>)
                 \o (IF Mentions("jaewon", d.risk_factors)
                     THEN <<RecStayCheck>> ELSE << >>)

\* a non-empty factor list of neither category gets the generic entry
C19_Witness ==
    /\ last.op = "derive_recommendations"
    /\ last.risk_factors = <<FactorNoDrgCode>>
    /\ last.outcome.value = <<RecCompleteness>>

\* C20: a failure while processing one record of a batch does not abort the
\* batch.  batch_predict returns one entry per request, and the entry of a
\* request whose Learned path raised is its RuleBased result;
\* batch_predict_admissions returns one entry per record, an error entry
\* for exactly the records whose prediction raises, and for every other
\* record the prediction it gets when processed alone.
C20_BatchSurvivesFailure ==
    /\ last.op = "batch_predict"
           => /\ last.outcome.status = "returned"
              /\ Len(last.outcome.value.results) = Len(last.data)
              /\ \A i \in 1..Len(last.data) :
                     LET g == predict_group(last.svc_before, last.cls_before,
                                            clsFile, last.data[i])
                         e == last.outcome.value.results[i]
                     IN  /\ e.admission_id = i - 1
                         /\ e.predicted_group \in {"A", "B", "C"}
                         /\ e.drg_code = <<e.predicted_group, "0", "0", "1">>
                         /\ IF g.learned = "raised"
                            THEN e = BatchEntry(i, _predict_with_rules(last.data[i]).value)
                            ELSE e = BatchEntry(i, g.outcome.value)
    /\ last.op = "batch_predict_admissions"
           => /\ last.outcome.status = "returned"
              /\ Len(last.outcome.value) = Len(last.data.records)
              /\ \A i \in 1..Len(last.data.records) :
                     LET alone == predict_admission_outcome(
                                      last.cls_before, last.den_before, clsFile,
                                      last.data.records[i], last.data.rags[i]).outcome
                         e == last.outcome.value[i]
                     IN  /\ e.admission_id = i
                         /\ e.error <=> (alone.status = "raised")
                         /\ ~e.error => e.prediction = alone.value

\* a batch of two whose first record fails and whose second gets a result
C20_Witness ==
    /\ last.op = "batch_predict_admissions"
    /\ Len(last.outcome.value) = 2
    /\ last.outcome.value[1].error
    /\ ~last.outcome.value[2].error

\* a batch of two requests: the first degraded to the rules after its
\* Learned path raised, the second classified by the model
C20_ApiWitness ==
    /\ last.op = "batch_predict"
    /\ Len(last.outcome.value.results) = 2
    /\ predict_group(last.svc_before, last.cls_before, clsFile,
                     last.data[1]).learned = "raised"
    /\ predict_group(last.svc_before, last.cls_before, clsFile,
                     last.data[2]).learned = "returned"

\* C21: a batch prediction over n records returns exactly n results with
\* count = n, and the result at 0-based position i carries the identifier
\* batch_i, in input order.
C21_BatchCountAndOrder ==
    last.op = "batch_predict"
        => /\ last.outcome.status = "returned"
           /\ Len(last.outcome.value.results) = Len(last.data)
           /\ last.outcome.value.count = Len(last.data)
           /\ \A k \in 1..Len(last.data) :
                  /\ last.outcome.value.results[k].admission_id = k - 1
                  /\ \E g \in {predict_group(last.svc_before, last.cls_before,
                                              clsFile, last.data[k])} :
                         last.outcome.value.results[k].predicted_group
                             = g.outcome.value.predicted_group

\* Scenario 4: a batch of two records
C21_Witness ==
    /\ last.op = "batch_predict"
    /\ Len(last.data) = 2
    /\ last.outcome.status = "returned"
    /\ last.outcome.value.count = 2
    /\ last.outcome.value.results[2].admission_id = 1

\* C22: prediction is idempotent.  For a constructed orchestrator, no step of
\* the system (another prediction call of either service, a training save,
\* a return) changes the result that predict_group, predict_denial_risk or
\* predict_comprehensive gives for any input; so two calls with an identical
\* input return identical results whatever happened in between.  The
\* results are functions of the flags, the two handles and the artifact, so
\* only steps that change one of these need a look.
C22_Idempotent ==
    [][\/ <<svc, cls, den, clsFile>>' = <<svc, cls, den, clsFile>>
       \/ ~svc.constructed
       \/ \A data \in Records :
             /\ predict_group(svc', cls', clsFile', data).outcome
                    = predict_group(svc, cls, clsFile, data).outcome
             /\ predict_denial_risk(svc', den', data).outcome
                    = predict_denial_risk(svc, den, data).outcome
             /\ predict_comprehensive(svc', cls', den', clsFile', data).outcome
                    = predict_comprehensive(svc, cls, den, clsFile, data).outcome]_vars

\* a predict_group call after a HIMService call has loaded the classifier
\* that the orchestrator's construction found missing
C22_Witness ==
    /\ last.op = "predict_group"
    /\ ~svc.use_ml
    /\ cls.model # 0
    /\ last.cls_before = cls
    /\ last.outcome = _predict_with_rules(last.data)

\* C23: a sub-model whose load failed stays in Fallback permanently: once
\* the orchestrator is constructed with a sub-model's handle empty, no later
\* step sets that handle, and every orchestrator call for it is RuleBased.
C23_FallbackIsPermanent ==
    [][/\ (svc.constructed /\ ~svc.use_ml /\ cls.model = 0) => cls'.model = 0
       /\ (svc.constructed /\ den.model = 0) => den'.model = 0
       /\ (svc.constructed /\ ~svc.use_ml) => ~svc'.use_ml
       /\ (svc.constructed /\ ~svc.use_ml
              /\ last'.op \in {"predict_group", "predict_comprehensive"})
             => last'.group_learned = "not_attempted"
       /\ (svc.constructed /\ den.model = 0 /\ last'.op \in DenialOps)
             => last'.denial_learned = "not_attempted"]_vars

\* type and priority of each suggestion, in order
TypesAndPriorities(suggestions) ==
    [i \in 1..Len(suggestions) |-> <<suggestions[i].type, suggestions[i].priority>>]

\* C24: upgrade suggestions depend only on predicted_group: none for A;
\* documentation/high, diagnosis/medium, procedure/medium for B;
\* diagnosis/high, documentation/medium for C; whatever the diagnosis.
C24_SuggestionsByGroup ==
    \A g \in ReturnedGroupPredictions :
        TypesAndPriorities(g.upgrade_suggestions) =
            IF g.predicted_group = "A" THEN << >>
            ELSE IF g.predicted_group = "B"
            THEN << <<"documentation", "high">>, <<"diagnosis", "medium">>,
                    <<"procedure", "medium">> >>
            ELSE << <<"diagnosis", "high">>, <<"documentation", "medium">> >>

\* the model classifies as C a record whose code the rules would put in A
C24_Witness ==
    /\ last.op = "predict_group"
    /\ last.group_learned = "returned"
    /\ last.data.principal_diagnosis = <<"A", "1", "1">>
    /\ last.outcome.value.predicted_group = "C"
    /\ Len(last.outcome.value.upgrade_suggestions) = 2

\* C25: the feature encoding never raises on a categorical value unseen at
\* training time: every unseen or missing value is replaced by "Unknown"
\* and encoded, whatever category set the encoding table holds.
C25_EncodingNeverRaises ==
    last.op = "encode_features"
        => /\ last.outcome.status = "returned"
           /\ (last.value = << >> \/ last.value[1] \notin last.classes)
                  => last.outcome.value.category = "Unknown"

\* the Learned group results of a finished call, each with the class list
\* and the probability vector of the model that produced it
LearnedGroupResults ==
    IF last.op = "predict_group" /\ last.group_learned = "returned"
    THEN {[result |-> last.outcome.value,
           classes |-> ClassifierClasses(cls.model),
           proba |-> ClassifierProba(cls.model, last.data.profile).value]}
    ELSE IF last.op = "predict_admission_outcome" /\ last.outcome.status = "returned"
    THEN {[result |-> last.outcome.value.group_prediction,
           classes |-> ClassifierClasses(cls.model),
           proba |-> ClassifierProba(cls.model, last.data.profile).value]}
    ELSE {}

\* C26: on the Learned path predicted_group is the class of maximum
\* probability, the first such class in the model's class order on a tie;
\* confidence is that maximum; a_group_probability is the probability of
\* class A, or 0 when A is not among the classes.
C26_LearnedArgmax ==
    \A l \in LearnedGroupResults :
        /\ \E i \in 1..Len(l.classes) :
               /\ l.classes[i] = l.result.predicted_group
               /\ \A j \in 1..Len(l.proba) : l.proba[j] <= l.proba[i]
               /\ \A j \in 1..(i - 1) : l.proba[j] < l.proba[i]
               /\ l.result.confidence = l.proba[i]
        /\ \A i \in 1..Len(l.classes) :
               l.classes[i] = "A" => l.result.a_group_probability = l.proba[i]
        /\ (\A i \in 1..Len(l.classes) : l.classes[i] # "A")
               => l.result.a_group_probability = 0

\* a tie between the last two of three classes, resolved to the earlier one
C26_Witness ==
    /\ last.op = "predict_group"
    /\ last.group_learned = "returned"
    /\ ClassifierProba(cls.model, last.data.profile).value = <<20, 40, 40>>
    /\ last.outcome.value.predicted_group = "B"
    /\ last.outcome.value.confidence = 40
    /\ last.outcome.value.a_group_probability = 20

\* C27: the event of a predict_group call reports the variant that produced
\* the result: "ml" only when the Learned path returned, and "rules" when
\* the result is the RuleBased one, also after the Learned path raised.
C27_EventReportsVariant ==
    (last.op = "predict_group" /\ Len(last.logs) > 0)
        => last.logs[1].method =
               (IF last.group_learned = "returned" THEN "ml" ELSE "rules")

\* C28: load_model is all-or-nothing: a load that returns False leaves the
\* handle as it was, so a classifier handle with a model always has the
\* encoders and the feature columns of the same artifact.
C28_LoadAllOrNothing ==
    cls.model # 0
        => (cls.label_encoders = cls.model /\ cls.feature_columns = cls.model)

\* the assessments of predict_comprehensive whose group the rules predicted
RuleAssessments ==
    IF last.op = "predict_comprehensive"
       /\ last.group_learned \in {"not_attempted", "raised"}
       /\ last.outcome.status = "returned"
    THEN {last.outcome.value} ELSE {}

\* C29: on the RuleBased path with the threshold 0.6, can_upgrade is true
\* exactly when predicted_group is A; so predict_comprehensive returns
\* potential_cmi = estimated_cmi and revenue_impact = 0 for every input, and
\* the upgrade-probability recommendation appears exactly for the records
\* classified as group A.
C29_RulePathNeverGains ==
    /\ \A g \in RuleGroupPredictions :
           g.can_upgrade <=> (g.predicted_group = "A")
    /\ \A a \in RuleAssessments :
           /\ a.potential_cmi = a.estimated_cmi
           /\ a.revenue_impact = 0
           /\ (\E i \in 1..Len(a.recommendations) :
                   a.recommendations[i] = UpgradeMessage(a.group_prediction.a_group_probability))
                  <=> (a.group_prediction.predicted_group = "A")

\* predict_comprehensive on a code the rules put in group A
C29_Witness ==
    /\ last.op = "predict_comprehensive"
    /\ last.group_learned = "not_attempted"
    /\ last.outcome.status = "returned"
    /\ last.data.principal_diagnosis = <<"B", "2", "0">>
    /\ last.outcome.value.group_prediction.can_upgrade
    /\ last.outcome.value.potential_cmi = 130
    /\ last.outcome.value.revenue_impact = 0
    /\ last.outcome.value.recommendations[1] = UpgradeMessage(90)

\* denial_probability, risk_level and risk_factors of a DenialRisk
ScoreOf(r) == <<r.denial_probability, r.risk_level, r.risk_factors>>

\* C30: with no model loaded the two rule-based denial scorers agree: for
\* every record DenialPredictor.predict_risk (HIMService) returns the same
\* denial_probability, risk_level and risk_factors as
\* PredictionService.predict_denial_risk (prediction API).
C30_RuleScorersAgree ==
    /\ (last.op = "predict_denial_risk" /\ den.model = 0
            /\ last.outcome.status = "returned")
           => /\ DenialPredictor_predict_risk(den, last.data).status = "returned"
              /\ ScoreOf(DenialPredictor_predict_risk(den, last.data).value)
                     = ScoreOf(last.outcome.value)
    /\ (last.op = "predict_admission_outcome" /\ den.model = 0
            /\ last.outcome.status = "returned")
           => ScoreOf(last.outcome.value.denial_risk)
                  = ScoreOf(_predict_denial_with_rules(last.data).value)

====
